---- MODULE Spec2Model ----
(***************************************************************************)
(* A model of cmds/install.go of gofabric8: the install command            *)
(* (install, downloadDriver, downloadKubernetes, downloadKubectlClient,    *)
(* downloadOpenShiftClient, downloadFile, getLatestVersionFromGitHub),     *)
(* the isInstalled predicate and the archive helpers unzip and ungzip.     *)
(*                                                                         *)
(* Strings that the code builds (paths, URLs, binary names) are sequences  *)
(* of atoms: an atom is a run of characters that never contains a path     *)
(* separator, or it is exactly one separator.  String concatenation (+) is *)
(* \o; filepath.Join / Clean / Dir work on the atoms as the library works  *)
(* on the characters.                                                      *)
(***************************************************************************)
EXTENDS Integers, Sequences, FiniteSets, TLC

VARIABLES
    \* ---- the process environment
    GOOS,           \* runtime.GOOS
    GOARCH,         \* runtime.GOARCH
    home,           \* homedir.HomeDir(): a path, <<>> when unresolvable
    ghToken,        \* os.Getenv("GH_TOKEN"), "" when unset
    onPath,         \* the commands exec.LookPath resolves
    kubeDir,        \* what is at $HOME/.kube and $HOME/.kube/config
    \* ---- the install run
    pc,             \* position of install(): start, driver, distro, kubectl, oc, done, exited
    isMinishift,    \* the --minishift flag
    mkdirErr,       \* did os.MkdirAll(writeFileLocation) fail
    attempted,      \* the steps run so far, with their returned error
    cmds,           \* external commands executed by downloadDriver
    gets,           \* http.Get calls: [step, dest, url]
    creates,        \* os.Create calls that made a file: [step, path, exec]
    extracts,       \* archive extractions: [fn, archive, target, err]
    log,            \* util.Infof / Successf / Warnf / Errorf / Fatalf lines
    \* ---- version lookup (package variable githubClient)
    githubClient,   \* the memoized *github.Client, NoClient when nil
    clientsCreated, \* number of github.NewClient calls
    tokenReads,     \* number of os.Getenv("GH_TOKEN") calls
    lookups,        \* GetLatestRelease calls: [step, owner, repo, client, outcome]
    \* ---- isInstalled
    installed,      \* isInstalled returned "true" or "false"; "none" before the call
    \* ---- unzip / ungzip
    apc,            \* position of the archive operation: idle, open, loop, done
    op,             \* "unzip" or "ungzip"
    archive,        \* the entries of the archive (reader.File)
    idx,            \* index of the next entry of the loop
    fsDirs,         \* directories below the target (relative paths)
    fsFiles,        \* files below the target: [name, content, mode]
    faults,         \* the sub-steps that failed so far
    aresult         \* returned error of the operation: "none", "nil" or "err"

envVars == <<GOOS, GOARCH, home, ghToken, onPath, kubeDir>>
installVars == <<pc, isMinishift, mkdirErr, attempted, cmds, gets, creates, extracts, log>>
lookupVars == <<githubClient, clientsCreated, tokenReads, lookups>>
checkVars == <<installed>>
archiveVars == <<apc, op, archive, idx, fsDirs, fsFiles, faults, aresult>>
vars == <<envVars, installVars, lookupVars, checkVars, archiveVars>>

(***************************************************************************)
(* Constants of install.go (lines 41-56).                                  *)
(***************************************************************************)
minishiftOwner == <<"jimmidyson">>
minishift == <<"minishift">>
minikube == <<"minikube">>
minishiftDownloadURL == <<"https:", "/", "/", "github.com", "/", "jimmidyson", "/">>
kubectl == <<"kubectl">>
kubernetes == <<"kubernetes">>
oc == <<"oc">>
binLocation == <<".fabric8", "/", "bin", "/">>
kubeDownloadURL == <<"https:", "/", "/", "storage.googleapis.com", "/">>

OSes == {"darwin", "linux", "windows", "freebsd"}
Arches == {"amd64"}
Commands == {"kubectl", "minikube", "minishift", "oc"}

(***************************************************************************)
(* path/filepath on atoms.                                                 *)
(***************************************************************************)
Separator(os) == IF os = "windows" THEN "\\" ELSE "/"

IsSeparator(a, os) == a = "/" \/ (os = "windows" /\ a = "\\")

\* The segments of a path: the maximal runs of atoms between separators
\* (empty runs included, as between two adjacent separators).
RECURSIVE Segments(_, _, _, _)
Segments(p, os, cur, acc) ==
    IF p = <<>> THEN Append(acc, cur)
    ELSE IF IsSeparator(Head(p), os)
         THEN Segments(Tail(p), os, <<>>, Append(acc, cur))
         ELSE Segments(Tail(p), os, Append(cur, Head(p)), acc)

RECURSIVE JoinSegments(_, _)
JoinSegments(segs, os) ==
    IF segs = <<>> THEN <<>>
    ELSE IF Len(segs) = 1 THEN Head(segs)
         ELSE Head(segs) \o <<Separator(os)>> \o JoinSegments(Tail(segs), os)

\* filepath.Clean for paths without ".." elements: drops empty and "."
\* elements and the trailing separator, keeps a leading separator.
Clean(p, os) ==
    LET rooted == p # <<>> /\ IsSeparator(p[1], os)
        segs == SelectSeq(Segments(p, os, <<>>, <<>>), LAMBDA s : s # <<>> /\ s # <<".">>)
        body == JoinSegments(segs, os)
    IN IF rooted THEN <<Separator(os)>> \o body
       ELSE IF body = <<>> THEN <<".">> ELSE body

\* filepath.Join of two elements: empty elements are ignored, the rest is
\* joined by a separator and cleaned.
Join(a, b, os) ==
    IF a = <<>> /\ b = <<>> THEN <<>>
    ELSE IF a = <<>> THEN Clean(b, os)
    ELSE IF b = <<>> THEN Clean(a, os)
    ELSE Clean(a \o <<Separator(os)>> \o b, os)

\* The index of the last separator of a path, 0 when it has none.
RECURSIVE LastSeparator(_, _, _)
LastSeparator(p, os, i) ==
    IF i = 0 THEN 0
    ELSE IF IsSeparator(p[i], os) THEN i ELSE LastSeparator(p, os, i - 1)

\* filepath.Dir: all but the last element of the path, cleaned.
Dir(p, os) == Clean(SubSeq(p, 1, LastSeparator(p, os, Len(p))), os)

(***************************************************************************)
(* The util logger.  Infof, Successf, Warnf and Errorf print a line and    *)
(* return; Fatalf prints a line and ends the process.                      *)
(***************************************************************************)
Infof(l, what) == Append(l, <<"info", what>>)

Successf(l, what) == Append(l, <<"success", what>>)

Warnf(l, what) == Append(l, <<"warn", what>>)

Errorf(l, what) == Append(l, <<"error", what>>)

Fatalf(l, what) == Append(l, <<"fatal", what>>)

\* Does a call of the logger at this level end the process?
Terminates(level) == level = "fatal"

(***************************************************************************)
(* Environment look-ups.                                                   *)
(***************************************************************************)
\* The home directories a user of the OS can have; <<>> is "not resolvable".
HomeDirs(os) ==
    IF os = "windows"
    THEN {<<>>, <<"C:", "\\", "Users", "\\", "u">>}
    ELSE {<<>>, <<"/", "home", "/", "u">>}

\* The command name exec.LookPath searches for: on Windows an explicit
\* ".exe" extension names the same command as the bare name (PATHEXT).
CommandOf(file) ==
    IF Len(file) > 1 /\ file[Len(file)] = ".exe"
    THEN SubSeq(file, 1, Len(file) - 1)[1]
    ELSE file[1]

LookPathNever(file) == FALSE

\* exec.LookPath(file) returned a nil error.
LookPath(file) == CommandOf(file) \in onPath

\* getFabric8BinLocation, for a resolvable home directory.
getFabric8BinLocation == Join(home, binLocation, GOOS)

getDownloadProperties(isMinishiftFlag) ==
    IF isMinishiftFlag
    THEN [clientBinary |-> oc, extraPath |-> <<"download", "/">>, kubeBinary |-> minishift,
          downloadURL |-> minishiftDownloadURL, kubeDistroOrg |-> minishiftOwner,
          kubeDistroRepo |-> minishift, isMiniShift |-> TRUE]
    ELSE [clientBinary |-> kubectl, extraPath |-> <<>>, kubeBinary |-> minikube,
          downloadURL |-> kubeDownloadURL, kubeDistroOrg |-> kubernetes,
          kubeDistroRepo |-> minikube, isMiniShift |-> FALSE]

(***************************************************************************)
(* getLatestVersionFromGitHub.                                             *)
(***************************************************************************)
NoClient == [id |-> 0, authed |-> FALSE]

\* The outcomes of one call: the API call fails, the release has no tag
\* name, the tag does not parse as a semantic version, or a version is
\* returned.
LookupOutcomes == {"api_err", "no_tag", "bad_tag", "ok"}

Versions == {<<"0.7.1">>}

LookupErr(outcome) == outcome # "ok"

NeedsClientAlways(cur) == TRUE

\* if githubClient == nil
NeedsClient(cur) == cur = NoClient

getLatestVersionFromGitHub(step, githubOwner, githubRepo, outcome) ==
    LET fresh == NeedsClient(githubClient)
        client == IF fresh
                  THEN [id |-> clientsCreated + 1, authed |-> ghToken # ""]
                  ELSE githubClient
    IN /\ tokenReads' = IF fresh THEN tokenReads + 1 ELSE tokenReads
       /\ clientsCreated' = IF fresh THEN clientsCreated + 1 ELSE clientsCreated
       /\ githubClient' = client
       /\ lookups' = Append(lookups, [step |-> step, owner |-> githubOwner,
                                      repo |-> githubRepo, client |-> client,
                                      outcome |-> outcome])

(***************************************************************************)
(* downloadFile(filepath, url).                                            *)
(***************************************************************************)
\* os.Create fails; http.Get fails; io.Copy fails; os.Chmod fails (its
\* error is dropped: the err tested after it is io.Copy's); all succeed.
DownloadOutcomes == {"create_err", "get_err", "copy_err", "chmod_err", "ok"}

DownloadErr(o) == o \in {"create_err", "get_err", "copy_err"}

\* The file downloadFile leaves on disk.
DownloadCreates(step, path, o) ==
    IF o = "create_err" THEN <<>>
    ELSE <<[step |-> step, path |-> path, complete |-> o \in {"chmod_err", "ok"},
            exec |-> o = "ok"]>>

\* The HTTP GET downloadFile issues.
DownloadGets(step, path, url, o) ==
    IF o = "create_err" THEN <<>> ELSE <<[step |-> step, dest |-> path, url |-> url]>>

(***************************************************************************)
(* install(isMinishift): one action per step of the function.              *)
(***************************************************************************)
Steps == {"driver", "distro", "kubectl", "oc"}

StepAfterAbortOnError(step, err, d) ==
    IF err THEN "done"
    ELSE IF step = "driver" THEN "distro"
    ELSE IF step = "distro" THEN "kubectl"
    ELSE IF step = "kubectl" /\ d.isMiniShift THEN "oc"
    ELSE "done"

\* The position of install after a step returned: an error is only logged
\* (util.Warnf), and the OpenShift client follows kubectl when d.isMiniShift.
StepAfter(step, err, d) ==
    IF step = "driver" THEN "distro"
    ELSE IF step = "distro" THEN "kubectl"
    ELSE IF step = "kubectl" /\ d.isMiniShift THEN "oc"
    ELSE "done"

\* Did one of the lines added to the log end the process?
Exited(lg) == \E i \in (Len(log) + 1)..Len(lg) : Terminates(lg[i][1])

\* A step returned to install with error err, after logging lg.
Returned(step, err, lg) ==
    LET lines == IF err THEN Warnf(lg, step) ELSE lg IN
    /\ attempted' = Append(attempted, [step |-> step, err |-> err])
    /\ log' = lines
    /\ pc' = IF Exited(lines) THEN "exited"
             ELSE StepAfter(step, err, getDownloadProperties(isMinishift))

\* install, lines 90-95: resolve the install directory and create it.
Install ==
    /\ pc = "start"
    /\ IF home = <<>>
       THEN /\ log' = Fatalf(log, "no home")
            /\ pc' = IF Exited(log') THEN "exited" ELSE "driver"
            /\ UNCHANGED mkdirErr
       ELSE \E failed \in BOOLEAN :
                /\ mkdirErr' = failed
                /\ log' = IF failed THEN Errorf(log, "mkdir") ELSE log
                /\ pc' = IF Exited(log') THEN "exited" ELSE "driver"
    /\ UNCHANGED <<envVars, isMinishift, attempted, cmds, gets, creates, extracts,
                   lookupVars, checkVars, archiveVars>>

\* The runs of downloadDriver on darwin: what "brew info" reports and the
\* first command that fails, if any.
BrewInfo == {"installed", "not_installed", "err"}

DriverFailures == {"none", "brew install", "brew --prefix", "sudo chown", "sudo chmod"}

DriverCommands == <<"brew install", "brew --prefix", "sudo chown", "sudo chmod">>

\* The commands run up to and including the failing one.
RECURSIVE CommandsUntil(_, _)
CommandsUntil(cs, failure) ==
    IF cs = <<>> THEN <<>>
    ELSE IF Head(cs) = failure THEN <<Head(cs)>>
         ELSE <<Head(cs)>> \o CommandsUntil(Tail(cs), failure)

DownloadDriver ==
    /\ pc = "driver"
    /\ \/ /\ GOOS = "darwin"
          /\ \E info \in BrewInfo, failure \in DriverFailures :
                IF info = "installed"
                THEN /\ failure = "none"
                     /\ cmds' = cmds \o <<"brew info">>
                     /\ Returned("driver", FALSE,
                                 Successf(Infof(log, "xhyve recommended"), "xhyve already installed"))
                ELSE /\ cmds' = cmds \o <<"brew info">> \o CommandsUntil(DriverCommands, failure)
                     /\ Returned("driver", failure # "none",
                                 IF failure = "none"
                                 THEN Successf(Infof(log, "xhyve recommended"), "xhyve installed")
                                 ELSE Infof(log, "xhyve recommended"))
       \/ /\ GOOS = "linux"
          /\ Returned("driver", TRUE, log)
          /\ UNCHANGED cmds
       \/ /\ GOOS \notin {"darwin", "linux"}
          /\ Returned("driver", FALSE, log)
          /\ UNCHANGED cmds
    /\ UNCHANGED <<envVars, isMinishift, mkdirErr, gets, creates, extracts,
                   lookupVars, checkVars, archiveVars>>

\* The URL downloadKubernetes builds (line 187-190).
KubeURL(d, latestVersion) ==
    d.downloadURL \o d.kubeDistroRepo \o <<"/", "releases", "/">> \o d.extraPath
        \o <<"v">> \o latestVersion \o <<"/">> \o d.kubeDistroRepo
        \o <<"-", GOOS, "-", GOARCH>>
        \o (IF GOOS = "windows" THEN <<".exe">> ELSE <<>>)

\* The URL downloadKubectlClient builds (line 220-223).
KubectlURL(latestVersion) ==
    <<"https:", "/", "/", "storage.googleapis.com", "/", "kubernetes-release", "/",
      "release", "/", "v">> \o latestVersion
        \o <<"/", "bin", "/", GOOS, "/", GOARCH, "/">> \o kubectl
        \o (IF GOOS = "windows" THEN <<".exe">> ELSE <<>>)

\* The body shared by downloadKubernetes and downloadKubectlClient once
\* LookPath failed: look the version up, build the URL, download the file.
\* quiet: the lookup failure is returned without an util.Errorf line.
LookupAndDownload(step, org, repo, binary, d, quiet) ==
    \E vo \in LookupOutcomes :
        /\ getLatestVersionFromGitHub(step, org, repo, vo)
        /\ IF LookupErr(vo)
           THEN /\ Returned(step, TRUE, IF quiet THEN log ELSE Errorf(log, "no version"))
                /\ UNCHANGED <<gets, creates>>
           ELSE \E v \in Versions, fo \in DownloadOutcomes :
                    LET dest == getFabric8BinLocation \o binary
                        url == IF step = "distro" THEN KubeURL(d, v) ELSE KubectlURL(v)
                    IN
                    /\ gets' = gets \o DownloadGets(step, dest, url, fo)
                    /\ creates' = creates \o DownloadCreates(step, dest, fo)
                    /\ Returned(step, DownloadErr(fo),
                                IF DownloadErr(fo)
                                THEN Errorf(Infof(log, "downloading"), "download failed")
                                ELSE Successf(Infof(log, "downloading"), "downloaded"))

DownloadKubernetes ==
    /\ pc = "distro"
    /\ LET d == getDownloadProperties(isMinishift)
           kubeBinary == IF GOOS = "windows" THEN d.kubeBinary \o <<".exe">> ELSE d.kubeBinary
       IN IF LookPath(kubeBinary)
          THEN /\ Returned("distro", FALSE, Successf(log, "already available"))
               /\ UNCHANGED <<gets, creates, lookupVars>>
          ELSE LookupAndDownload("distro", d.kubeDistroOrg, d.kubeDistroRepo, kubeBinary,
                                 d, FALSE)
    /\ UNCHANGED <<envVars, isMinishift, mkdirErr, cmds, extracts, checkVars, archiveVars>>

DownloadKubectlClient ==
    /\ pc = "kubectl"
    /\ IF LookPath(kubectl)
       THEN /\ Returned("kubectl", FALSE, Successf(log, "already available"))
            /\ UNCHANGED <<gets, creates, lookupVars>>
       ELSE LookupAndDownload("kubectl", kubernetes, kubernetes, kubectl,
                              getDownloadProperties(isMinishift), TRUE)
    /\ UNCHANGED <<envVars, isMinishift, mkdirErr, cmds, extracts, checkVars, archiveVars>>

\* downloadOpenShiftClient, lines 250-253: the release URL without its
\* OS-specific ending, from the hard-coded version and sha.
OcSha == <<"565691c">>

OcVersion == <<"1.2.2">>

OcURLPrefix ==
    <<"https:", "/", "/", "github.com", "/", "openshift", "/", "origin", "/", "releases",
      "/", "download", "/", "v">> \o OcVersion
        \o <<"/", "openshift-origin-client-tools-v">> \o OcVersion \o <<"-">> \o OcSha

\* downloadOpenShiftClient, lines 253-262: clientURL after the switch.  In
\* the default case the format string handed to Sprintf is clientURL itself
\* followed by "-%s-%s.tar.gz", and the result is appended to clientURL.
OcClientURL(os, arch) ==
    LET clientURL == OcURLPrefix IN
    IF os = "windows" THEN clientURL \o <<"-windows.zip">>
    ELSE IF os = "darwin" THEN clientURL \o <<"-mac.zip">>
    ELSE clientURL \o (clientURL \o <<"-", os, "-", arch, ".tar.gz">>)

\* downloadOpenShiftClient, line 268: the file the archive is written to.
OcDownloadDest(writeFileLocation) == writeFileLocation \o oc \o <<".zip">>

\* downloadOpenShiftClient, lines 274-293: the extraction call per OS.
OcExtraction(os, writeFileLocation) ==
    IF os \in {"windows", "darwin"}
    THEN [fn |-> "unzip", archive |-> writeFileLocation \o oc \o <<".zip">>,
          target |-> writeFileLocation \o <<".">>]
    ELSE [fn |-> "unzip", archive |-> writeFileLocation \o oc \o <<".tar.gz">>,
          target |-> writeFileLocation \o <<".">>]

\* The files on disk after the downloads so far.
FilesOnDisk(cs) == {cs[i].path : i \in 1..Len(cs)}

DownloadOpenShiftClient ==
    /\ pc = "oc"
    /\ IF LookPath(oc)
       THEN /\ Returned("oc", FALSE, Successf(log, "already available"))
            /\ UNCHANGED <<gets, creates, extracts>>
       ELSE \E fo \in DownloadOutcomes, unzipFails \in BOOLEAN :
                LET writeFileLocation == getFabric8BinLocation
                    dest == OcDownloadDest(writeFileLocation)
                    made == creates \o DownloadCreates("oc", dest, fo)
                    call == OcExtraction(GOOS, writeFileLocation)
                    \* zip.OpenReader fails on a file that is not there
                    err == unzipFails \/ call.archive \notin FilesOnDisk(made)
                IN
                /\ gets' = gets \o DownloadGets("oc", dest, OcClientURL(GOOS, GOARCH), fo)
                /\ creates' = made
                /\ IF DownloadErr(fo)
                   THEN /\ unzipFails = FALSE
                        /\ UNCHANGED extracts
                        /\ Returned("oc", TRUE,
                                    Errorf(Infof(log, "downloading"), "download failed"))
                   ELSE /\ unzipFails = err
                        /\ extracts' = Append(extracts, [fn |-> call.fn,
                                                         archive |-> call.archive,
                                                         target |-> call.target,
                                                         err |-> err])
                        /\ Returned("oc", err,
                                    IF err
                                    THEN Errorf(Infof(log, "downloading"), "extract failed")
                                    ELSE Successf(Infof(log, "downloading"), "downloaded"))
    /\ UNCHANGED <<envVars, isMinishift, mkdirErr, cmds, lookupVars, checkVars, archiveVars>>

(***************************************************************************)
(* Idle values of the variables a specification does not use.              *)
(***************************************************************************)
InstallIdle ==
    /\ pc = "idle"
    /\ mkdirErr = FALSE
    /\ attempted = <<>>
    /\ cmds = <<>>
    /\ gets = <<>>
    /\ creates = <<>>
    /\ extracts = <<>>
    /\ log = <<>>

LookupFresh ==
    /\ githubClient = NoClient
    /\ clientsCreated = 0
    /\ tokenReads = 0
    /\ lookups = <<>>

CheckIdle == installed = "none"

ArchiveIdle ==
    /\ apc = "idle"
    /\ op = "none"
    /\ archive = <<>>
    /\ idx = 0
    /\ fsDirs = {}
    /\ fsFiles = {}
    /\ faults = {}
    /\ aresult = "none"

\* The environment a process can start in.
EnvInit ==
    /\ GOOS \in OSes
    /\ GOARCH \in Arches
    /\ home \in HomeDirs(GOOS)
    /\ onPath \in SUBSET Commands

(***************************************************************************)
(* The install command.                                                    *)
(***************************************************************************)
InitInstall ==
    /\ EnvInit
    /\ ghToken = ""
    /\ kubeDir = "missing"
    /\ isMinishift \in BOOLEAN
    /\ pc = "start"
    /\ mkdirErr = FALSE
    /\ attempted = <<>>
    /\ cmds = <<>>
    /\ gets = <<>>
    /\ creates = <<>>
    /\ extracts = <<>>
    /\ log = <<>>
    /\ LookupFresh
    /\ CheckIdle
    /\ ArchiveIdle

NextInstall ==
    \/ Install
    \/ DownloadDriver
    \/ DownloadKubernetes
    \/ DownloadKubectlClient
    \/ DownloadOpenShiftClient

SpecInstall == InitInstall /\ [][NextInstall]_vars

(***************************************************************************)
(* Properties of the install command (under SpecInstall).                  *)
(***************************************************************************)
StepNames == [i \in 1..Len(attempted) |-> attempted[i].step]

ExpectedSteps == <<"driver", "distro", "kubectl">> \o (IF isMinishift THEN <<"oc">> ELSE <<>>)

\* C1: when the home directory resolves and the install directory was
\* created, the steps attempted so far are always the first steps of
\* driver, distro, kubectl, (oc iff minishift mode), each once and in that
\* order, whatever errors the earlier steps returned; the run is positioned
\* at the next step of that list, can take it, and ends only after the last.
C1_FixedStepOrder ==
    (home # <<>> /\ pc # "start" /\ ~mkdirErr) =>
        /\ pc \in Steps \cup {"done"}
        /\ Len(StepNames) <= Len(ExpectedSteps)
        /\ StepNames = SubSeq(ExpectedSteps, 1, Len(StepNames))
        /\ pc = "done" <=> StepNames = ExpectedSteps
        /\ pc \in Steps => /\ ExpectedSteps[Len(StepNames) + 1] = pc
                           /\ ENABLED NextInstall

\* C1 witness: a finished minishift run in which driver, distro and kubectl
\* all failed and the OpenShift client step was still attempted.
C1_Witness ==
    /\ pc = "done"
    /\ isMinishift
    /\ ~mkdirErr
    /\ Len(attempted) = 4
    /\ attempted[1].err /\ attempted[2].err /\ attempted[3].err
    /\ attempted[4].step = "oc"

\* C2: after a failed creation of the install directory no later step is
\* attempted: no driver command, no version lookup, no download, no
\* extraction.
C2_MkdirFailureEndsRun ==
    mkdirErr =>
        /\ attempted = <<>>
        /\ cmds = <<>>
        /\ lookups = <<>>
        /\ gets = <<>>
        /\ creates = <<>>
        /\ extracts = <<>>

\* The command a binary step looks for on the search path.
StepCommand(step) ==
    IF step = "distro" THEN (IF isMinishift THEN "minishift" ELSE "minikube")
    ELSE IF step = "kubectl" THEN "kubectl"
    ELSE "oc"

StepTouched(step) ==
    \/ \E i \in 1..Len(lookups) : lookups[i].step = step
    \/ \E i \in 1..Len(gets) : gets[i].step = step
    \/ \E i \in 1..Len(creates) : creates[i].step = step
    \/ step = "oc" /\ extracts # <<>>

\* C3: a binary step whose binary is on the search path does no version
\* lookup, no HTTP download, no file write, and returns success; a primary
\* mode run with minikube and kubectl on the path ends with zero downloads.
C3_OnPathMeansNoDownload ==
    /\ \A i \in 1..Len(attempted) :
          (attempted[i].step # "driver" /\ StepCommand(attempted[i].step) \in onPath) =>
              /\ ~attempted[i].err
              /\ ~StepTouched(attempted[i].step)
    /\ (pc = "done" /\ ~isMinishift /\ {"minikube", "kubectl"} \subseteq onPath) =>
          /\ gets = <<>>
          /\ creates = <<>>

\* C3 witness: a finished primary-mode run with minikube and kubectl on the
\* path whose driver step failed and whose two binary steps returned nil.
C3_Witness ==
    /\ pc = "done"
    /\ ~isMinishift
    /\ {"minikube", "kubectl"} \subseteq onPath
    /\ Len(attempted) = 3
    /\ attempted[1].err
    /\ ~attempted[2].err /\ ~attempted[3].err

\* The install directory: home directory joined with .fabric8/bin.
InstallDir == home \o <<Separator(GOOS), ".fabric8", Separator(GOOS), "bin">>

\* The file name a step downloads to.
StepFileName(step) ==
    IF step = "distro"
    THEN getDownloadProperties(isMinishift).kubeBinary
             \o (IF GOOS = "windows" THEN <<".exe">> ELSE <<>>)
    ELSE IF step = "kubectl" THEN kubectl
    ELSE oc \o <<".zip">>

\* C5: every downloaded file is written to <install dir><separator><file
\* name>, so that its parent directory is the install directory.
C5_DownloadsInsideInstallDir ==
    \A i \in 1..Len(creates) :
        /\ creates[i].path = InstallDir \o <<Separator(GOOS)>> \o StepFileName(creates[i].step)
        /\ Dir(creates[i].path, GOOS) = InstallDir

\* C6: in the OpenShift client step the extraction reads the file the
\* download wrote, with unzip on Windows and macOS and ungzip elsewhere.
C6_ExtractsTheDownload ==
    \A i \in 1..Len(extracts) :
        /\ \E j \in 1..Len(creates) :
              creates[j].step = "oc" /\ creates[j].path = extracts[i].archive
        /\ extracts[i].fn = (IF GOOS \in {"windows", "darwin"} THEN "unzip" ELSE "ungzip")

\* The OS-specific ending of the OpenShift client archive URL.
OcSuffix(os, arch) ==
    IF os = "windows" THEN <<"-windows.zip">>
    ELSE IF os = "darwin" THEN <<"-mac.zip">>
    ELSE <<"-", os, "-", arch, ".tar.gz">>

\* The number of positions of s at which sub occurs.
Occurrences(sub, s) ==
    Cardinality({i \in 1..Len(s) : /\ i + Len(sub) - 1 <= Len(s)
                                   /\ SubSeq(s, i, i + Len(sub) - 1) = sub})

\* C7: the OpenShift client archive URL is the release prefix followed by
\* one OS-specific suffix, and the prefix occurs once in it.
C7_OcURLShape ==
    \A i \in 1..Len(gets) :
        gets[i].step = "oc" =>
            /\ gets[i].url = OcURLPrefix \o OcSuffix(GOOS, GOARCH)
            /\ Occurrences(OcURLPrefix, gets[i].url) = 1

(***************************************************************************)
(* Version lookups: any sequence of getLatestVersionFromGitHub calls in    *)
(* one process.                                                            *)
(***************************************************************************)
MaxLookups == 3

\* The owner/repository pairs the program looks up.
LookupTargets == {<<kubernetes, minikube>>, <<minishiftOwner, minishift>>,
                  <<kubernetes, kubernetes>>}

InitLookup ==
    /\ GOOS = "linux"
    /\ GOARCH = "amd64"
    /\ home = <<"/", "home", "/", "u">>
    /\ ghToken \in {"", "token"}
    /\ onPath = {}
    /\ kubeDir = "missing"
    /\ isMinishift = FALSE
    /\ InstallIdle
    /\ LookupFresh
    /\ CheckIdle
    /\ ArchiveIdle

VersionLookup ==
    /\ Len(lookups) < MaxLookups
    /\ \E t \in LookupTargets, vo \in LookupOutcomes :
          getLatestVersionFromGitHub("call", t[1], t[2], vo)
    /\ UNCHANGED <<envVars, installVars, checkVars, archiveVars>>

NextLookup == VersionLookup

SpecLookup == InitLookup /\ [][NextLookup]_vars

\* C10: across any sequence of version lookups the client handle is created
\* at most once, the token is read from the environment at most once, and
\* every lookup uses the handle the first lookup created.
C10_ClientCreatedOnce ==
    /\ clientsCreated <= 1
    /\ tokenReads <= 1
    /\ \A i \in 1..Len(lookups) :
          /\ lookups[i].client # NoClient
          /\ lookups[i].client = lookups[1].client
          /\ githubClient = lookups[1].client

\* C10 witness: three lookups, the first of which failed, and one handle.
C10_Witness ==
    /\ Len(lookups) >= 3
    /\ lookups[1].outcome = "api_err"
    /\ lookups[2].outcome = "ok"
    /\ lookups[3].outcome = "no_tag"
    /\ clientsCreated = 1

(***************************************************************************)
(* isInstalled(isMinishift).                                               *)
(***************************************************************************)
\* What can be at $HOME/.kube: a directory holding a config file or not,
\* nothing, a regular file, or a directory the user may not search (with or
\* without a config file in it).
KubeDirStates == {"config", "no_config", "missing", "not_a_dir",
                  "unsearchable_config", "unsearchable_no_config"}

\* Is there a file $HOME/.kube/config?
ConfigExists(k) == k \in {"config", "unsearchable_config"}

\* The error of os.Stat(home + "/.kube/config").
Stat(k) ==
    IF k = "config" THEN "nil"
    ELSE IF k \in {"no_config", "missing"} THEN "ENOENT"
    ELSE IF k = "not_a_dir" THEN "ENOTDIR"
    ELSE "EACCES"

\* os.IsNotExist(err)
IsNotExist(err) == err = "ENOENT"

\* The value isInstalled returns, for a resolvable home directory.
isInstalled(isMinishiftFlag) ==
    IF IsNotExist(Stat(kubeDir)) THEN FALSE
    ELSE IF ~LookPath(kubectl) THEN FALSE
    ELSE IF isMinishiftFlag
         THEN (IF ~LookPath(minishift) THEN FALSE
               ELSE IF ~LookPath(oc) THEN FALSE
               ELSE TRUE)
         ELSE (IF ~LookPath(minikube) THEN FALSE ELSE TRUE)

InitCheck ==
    /\ EnvInit
    /\ ghToken = ""
    /\ kubeDir \in KubeDirStates
    /\ isMinishift \in BOOLEAN
    /\ InstallIdle
    /\ LookupFresh
    /\ CheckIdle
    /\ ArchiveIdle

IsInstalledCall ==
    /\ installed = "none"
    /\ IF home = <<>>
       THEN /\ log' = Fatalf(log, "no home")
            /\ installed' = IF Exited(log') THEN "exited" ELSE "false"
       ELSE /\ installed' = IF isInstalled(isMinishift) THEN "true" ELSE "false"
            /\ UNCHANGED log
    /\ UNCHANGED <<envVars, pc, isMinishift, mkdirErr, attempted, cmds, gets, creates,
                   extracts, lookupVars, archiveVars>>

NextCheck == IsInstalledCall

SpecCheck == InitCheck /\ [][NextCheck]_vars

\* The binaries the mode needs on the search path.
ModeBinaries(mode) ==
    IF mode THEN {"kubectl", "minishift", "oc"} ELSE {"kubectl", "minikube"}

\* C4: isInstalled returns true only when the config file exists and all
\* binaries of the mode are on the search path, and returns false whenever
\* the config file is absent.
C4_InstalledOnlyWithConfig ==
    /\ installed = "true" =>
          (ConfigExists(kubeDir) /\ ModeBinaries(isMinishift) \subseteq onPath)
    /\ (installed \in {"true", "false"} /\ ~ConfigExists(kubeDir)) => installed = "false"

(***************************************************************************)
(* unzip(archive, target) and ungzip(source, target).  Paths below the     *)
(* target are sequences of names; <<>> is the target itself.  File modes   *)
(* are sets of the owner's permission bits.                                *)
(***************************************************************************)
MaxEntries == 3

DirNames == {<<"a">>, <<"a", "b">>}

FileNames == {<<"t">>, <<"a", "f">>, <<"a", "b", "g">>}

FileModes == {{"r", "w"}, {}}

Mode0755 == {"r", "w", "x"}

\* The mode os.Create gives a new file (0666).
Mode0666 == {"r", "w"}

ZipEntries ==
    [name : DirNames, isDir : {TRUE}, mode : {Mode0755}, content : {"dir"}]
        \cup [name : FileNames, isDir : {FALSE}, mode : FileModes, content : {"bytes"}]

\* The archives of at most MaxEntries entries with distinct names, in any
\* order, with or without entries for the directories.
ZipArchives ==
    UNION {{a \in [1..n -> ZipEntries] :
               \A i, j \in 1..n : i # j => a[i].name # a[j].name} : n \in 0..MaxEntries}

\* A gzip stream: its header's name field (possibly empty) and its data.
GzipArchives ==
    {<<[name |-> n, isDir |-> FALSE, mode |-> Mode0666, content |-> "bytes"]>> :
        n \in {<<"oc">>, <<>>}}

Parent(name) == SubSeq(name, 1, Len(name) - 1)

\* The directories os.MkdirAll(path) makes sure exist: path and its ancestors.
Ancestors(name) == {SubSeq(name, 1, k) : k \in 0..Len(name)}

InitArchive ==
    /\ GOOS = "linux"
    /\ GOARCH = "amd64"
    /\ home = <<"/", "home", "/", "u">>
    /\ ghToken = ""
    /\ onPath = {}
    /\ kubeDir = "missing"
    /\ isMinishift = FALSE
    /\ InstallIdle
    /\ LookupFresh
    /\ CheckIdle
    /\ apc = "open"
    /\ \/ op = "unzip" /\ archive \in ZipArchives
       \/ op = "ungzip" /\ archive \in GzipArchives
    /\ idx = 0
    /\ fsDirs = {}
    /\ fsFiles = {}
    /\ faults = {}
    /\ aresult = "none"

\* The operation returns err.
Abort(fault) ==
    /\ faults' = faults \cup {fault}
    /\ aresult' = "err"
    /\ apc' = "done"

\* unzip, lines 438-445: open the archive and create the target.
UnzipOpen ==
    /\ op = "unzip" /\ apc = "open"
    /\ \E f \in {"none", "zip.OpenReader", "MkdirAll target"} :
          IF f = "none"
          THEN /\ apc' = "loop"
               /\ idx' = 1
               /\ fsDirs' = fsDirs \cup {<<>>}
               /\ UNCHANGED <<faults, aresult>>
          ELSE /\ Abort(f)
               /\ UNCHANGED <<idx, fsDirs>>
    /\ UNCHANGED <<envVars, installVars, lookupVars, checkVars, op, archive, fsFiles>>

\* The file an entry leaves at its path: whole or cut short by a failed
\* copy, with mode 0755 once os.Chmod succeeded and the stored mode before.
Extracted(e, whole, chmodDone) ==
    [name |-> e.name, content |-> IF whole THEN e.content ELSE "partial",
     mode |-> IF chmodDone THEN Mode0755 ELSE e.mode]

\* unzip, lines 447-475: one iteration of the loop over reader.File.
UnzipEntry ==
    /\ op = "unzip" /\ apc = "loop" /\ idx <= Len(archive)
    /\ LET e == archive[idx] IN
       IF e.isDir
       THEN \* os.MkdirAll(path, mode): its error is not looked at
            \E failed \in BOOLEAN :
                /\ fsDirs' = IF failed THEN fsDirs ELSE fsDirs \cup Ancestors(e.name)
                /\ faults' = IF failed THEN faults \cup {"MkdirAll entry"} ELSE faults
                /\ idx' = idx + 1
                /\ UNCHANGED <<fsFiles, aresult, apc>>
       ELSE \E f \in {"none", "file.Open", "os.OpenFile", "io.Copy", "os.Chmod"} :
                IF f = "file.Open"
                THEN /\ Abort(f)
                     /\ UNCHANGED <<idx, fsDirs, fsFiles>>
                ELSE IF Parent(e.name) \notin fsDirs
                THEN \* os.OpenFile: no such directory
                     /\ f = "none"
                     /\ Abort("os.OpenFile: no parent directory")
                     /\ UNCHANGED <<idx, fsDirs, fsFiles>>
                ELSE IF f = "os.OpenFile"
                THEN /\ Abort(f)
                     /\ UNCHANGED <<idx, fsDirs, fsFiles>>
                ELSE IF f = "io.Copy"
                THEN /\ Abort(f)
                     /\ fsFiles' = fsFiles \cup {Extracted(e, FALSE, FALSE)}
                     /\ UNCHANGED <<idx, fsDirs>>
                ELSE \* os.Chmod(path, 0755): the err tested after it is os.OpenFile's
                     /\ fsFiles' = fsFiles \cup {Extracted(e, TRUE, f = "none")}
                     /\ faults' = IF f = "os.Chmod" THEN faults \cup {f} ELSE faults
                     /\ idx' = idx + 1
                     /\ UNCHANGED <<fsDirs, aresult, apc>>
    /\ UNCHANGED <<envVars, installVars, lookupVars, checkVars, op, archive>>

\* unzip, line 477: return nil after the last entry.
UnzipReturn ==
    /\ op = "unzip" /\ apc = "loop" /\ idx > Len(archive)
    /\ aresult' = "nil"
    /\ apc' = "done"
    /\ UNCHANGED <<envVars, installVars, lookupVars, checkVars, op, archive, idx, fsDirs,
                   fsFiles, faults>>

\* ungzip, lines 480-511.
Ungzip ==
    /\ op = "ungzip" /\ apc = "open"
    /\ LET e == archive[1] IN
       \E f \in {"none", "os.Open", "gzip.NewReader", "os.Create", "io.Copy", "os.Chmod"} :
           IF f \in {"os.Open", "gzip.NewReader", "os.Create"}
           THEN /\ Abort(f)
                /\ UNCHANGED fsFiles
           ELSE IF e.name = <<>>
           THEN \* filepath.Join(target, "") is the target: os.Create on a directory
                /\ f = "none"
                /\ Abort("os.Create: is a directory")
                /\ UNCHANGED fsFiles
           ELSE IF f = "io.Copy"
           THEN /\ Abort(f)
                /\ fsFiles' = fsFiles \cup {Extracted(e, FALSE, FALSE)}
           ELSE \* os.Chmod(target, 0755), then return err: io.Copy's, nil
                /\ fsFiles' = fsFiles \cup {Extracted(e, TRUE, f = "none")}
                /\ faults' = IF f = "os.Chmod" THEN faults \cup {f} ELSE faults
                /\ aresult' = "nil"
                /\ apc' = "done"
    /\ UNCHANGED <<envVars, installVars, lookupVars, checkVars, op, archive, idx, fsDirs>>

NextArchive ==
    \/ UnzipOpen
    \/ UnzipEntry
    \/ UnzipReturn
    \/ Ungzip

SpecArchive == InitArchive /\ [][NextArchive]_vars

\* C8: an archive operation in which a sub-step failed (the open, the
\* creation of a directory, the byte copy, the change of permission bits)
\* returns an error, never nil.
C8_FailureIsReturned ==
    (apc = "done" /\ faults # {}) => aresult = "err"

\* The sub-step failures that come from the system and not from the
\* archive's own shape.
SystemFaults == faults \ {"os.OpenFile: no parent directory"}

\* C9: unzip of an archive packing a directory tree (entries in any order,
\* with or without directory entries, any stored permission bits) into an
\* empty target, with no failure of the system underneath, returns nil with
\* every file entry extracted whole and executable.
C9_UnzipRoundTrip ==
    (op = "unzip" /\ apc = "done" /\ SystemFaults = {}) =>
        /\ aresult = "nil"
        /\ \A i \in 1..Len(archive) :
              ~archive[i].isDir =>
                  [name |-> archive[i].name, content |-> archive[i].content,
                   mode |-> Mode0755] \in fsFiles

====
